---------------------------- MODULE Spec2Model ----------------------------
(***************************************************************************)
(* A model of yangform's path export: the recursive walker path.Paths, the *)
(* text renderer of the export command (exportCmd.RunE) and the HTML       *)
(* renderer path.Template.                                                 *)
(*                                                                         *)
(* Go strings are modelled as sequences of one-character strings, so that  *)
(* strings.Split, strings.Join, sort.Strings and the fmt verbs are         *)
(* computed character by character as the library computes them.           *)
(***************************************************************************)
EXTENDS Integers, Sequences, FiniteSets, TLC

VARIABLES
    tree,       \* the yang.Entry tree: node id -> entry (read-only input)
    termcolor,  \* the termcolor argument of Paths (!path-no-color)
    stack,      \* the call stack of Paths: one frame per active call
    heap,       \* the Path values that live behind an address
    ps,         \* *ps / paths: the collector, a slice of *Path (addresses)
    pc,         \* position of RunE / Template
    opts,       \* the viper settings the renderer reads
    idx,        \* the loop index of the text renderer over paths
    out,        \* what has been written to os.Stdout
    fs,         \* the template file as ioutil.ReadFile finds it
    reads,      \* the paths ioutil.ReadFile has been called on
    tvars,      \* input.Vars, the map handed to the template
    err         \* the error Template returns

vars == <<tree, termcolor, stack, heap, ps, pc, opts, idx, out, fs, reads, tvars, err>>

-----------------------------------------------------------------------------
(* Bounds of the model.                                                    *)

MaxNodes == 3        \* nodes below the Module root in the trees of Spec
MaxOrderNodes == 3   \* nodes below the root in the trees of SpecOrder
MaxCfgNodes == 2     \* nodes below the root in the trees of SpecConfig
MaxKeys == 2         \* key names of a list in SpecList
MaxMembers == 2      \* member types of a union in SpecType
MaxRecords == 2      \* records handed to the text renderer
MaxVars == 2         \* template variable arguments

-----------------------------------------------------------------------------
(* Go strings.                                                             *)

\* The byte value of a character, as far as the model's alphabet goes.
Code(c) ==
    CASE c = " " -> 32 [] c = "\"" -> 34 [] c = "*" -> 42 [] c = "," -> 44
      [] c = "-" -> 45 [] c = "/" -> 47 [] c = ":" -> 58 [] c = "=" -> 61
      [] c = ">" -> 62 [] c = "A" -> 65 [] c = "B" -> 66 [] c = "F" -> 70
      [] c = "[" -> 91 [] c = "\\" -> 92 [] c = "]" -> 93
      [] c = "a" -> 97 [] c = "b" -> 98 [] c = "c" -> 99 [] c = "d" -> 100
      [] c = "e" -> 101 [] c = "f" -> 102 [] c = "g" -> 103 [] c = "i" -> 105
      [] c = "k" -> 107 [] c = "l" -> 108 [] c = "m" -> 109 [] c = "n" -> 110
      [] c = "o" -> 111 [] c = "r" -> 114 [] c = "s" -> 115 [] c = "t" -> 116
      [] c = "u" -> 117 [] c = "v" -> 118 [] c = "w" -> 119 [] c = "x" -> 120
      [] c = "y" -> 121 [] c = "z" -> 122 [] c = "{" -> 123 [] c = "}" -> 125
      [] OTHER -> 27

\* s < t for Go strings: bytewise lexicographic.
RECURSIVE StrLess(_, _)
StrLess(s, t) ==
    IF t = <<>> THEN FALSE
    ELSE IF s = <<>> THEN TRUE
    ELSE IF Code(Head(s)) # Code(Head(t)) THEN Code(Head(s)) < Code(Head(t))
    ELSE StrLess(Tail(s), Tail(t))

\* A slice with the elements of ne not in increasing order (sort.Strings left out).
Unsorted(ne) == ne

\* sort.Strings(ne): the elements of ne in increasing order.
RECURSIVE SortStrings(_)
SortStrings(ne) ==
    IF ne = <<>> THEN <<>>
    ELSE LET i == CHOOSE i \in 1..Len(ne) :
                      \A j \in 1..Len(ne) : ~StrLess(ne[j], ne[i])
             rest == [j \in 1..(Len(ne) - 1) |-> IF j < i THEN ne[j] ELSE ne[j + 1]]
         IN  <<ne[i]>> \o SortStrings(rest)

\* strings.Index(s, sep): the 0-based index of the first sep in s, -1 if none.
Index(s, sep) ==
    LET hits == {i \in 0..(Len(s) - Len(sep)) : SubSeq(s, i + 1, i + Len(sep)) = sep}
    IN  IF hits = {} THEN -1 ELSE CHOOSE i \in hits : \A j \in hits : i <= j

\* strings.Split(s, sep) for a non-empty sep.
RECURSIVE Split(_, _)
Split(s, sep) ==
    LET i == Index(s, sep)
    IN  IF i < 0 THEN <<s>>
        ELSE <<SubSeq(s, 1, i)>> \o Split(SubSeq(s, i + Len(sep) + 1, Len(s)), sep)

\* strings.Join(elems, sep).
RECURSIVE Join(_, _)
Join(elems, sep) ==
    IF elems = <<>> THEN <<>>
    ELSE IF Len(elems) = 1 THEN elems[1]
    ELSE elems[1] \o sep \o Join(Tail(elems), sep)

\* The body of a %q string: a double quote and a backslash are escaped.
RECURSIVE Escape(_)
Escape(s) ==
    IF s = <<>> THEN <<>>
    ELSE (IF Head(s) \in {"\"", "\\"} THEN <<"\\", Head(s)>> ELSE <<Head(s)>>)
         \o Escape(Tail(s))

\* fmt's %+q of a string.
Quote(s) == <<"\"">> \o Escape(s) \o <<"\"">>

\* fmt's %+q of a []string: the verb applies to each element, the elements
\* are separated by a space and wrapped in brackets.
QuoteSlice(names) ==
    <<"[">> \o Join([i \in 1..Len(names) |-> Quote(names[i])], <<" ">>) \o <<"]">>

\* color.New(attr).Sprintf/Sprint: the text between the attribute's escape
\* sequence and the reset sequence, or the bare text when color.NoColor.
Colorize(attr, s, color) == IF color THEN <<attr>> \o s \o <<"ESC[0m">> ELSE s

-----------------------------------------------------------------------------
(* The walker's data: yang.Entry, yang.Type and path.Path.                 *)

\* A *yang.Type of a leaf statement together with its resolved *yang.YangType:
\* Name and IdentityBase are fields of yang.Type, Kind, Path and Enum those
\* of the resolved type, Members is yang.Type.Type.  A nil pointer is <<>>,
\* a pointer to v is <<v>>.
MkType(name, base, kind, path, enum, members) ==
    [Name |-> name, IdentityBase |-> base, Kind |-> kind, Path |-> path,
     Enum |-> enum, Members |-> members]

\* Path{}: the zero value of path.Path.
ZeroPath ==
    [Module |-> <<>>, Type |-> <<>>, XPath |-> <<>>, RestConfPath |-> <<>>,
     SType |-> <<>>, Config |-> "TSUnset"]

\* if e.Config != yang.TSUnset { p.Config = e.Config }, with the test dropped.
AlwaysOverwriteConfig(pcfg, ecfg) == ecfg

\* if e.Config != yang.TSUnset { p.Config = e.Config }
InheritConfig(pcfg, ecfg) == IF ecfg # "TSUnset" THEN ecfg ELSE pcfg

\* The key elements of a list with the keys joined by a space in both styles.
SpaceJoinedKeys(key, color) ==
    IF key # <<>>
    THEN LET keys == Split(key, <<" ">>)
         IN  [x |-> Colorize("ESC[1m", <<"[">> \o Join(keys, <<" ">>) \o <<"=", "*", "]">>, color),
              r |-> Colorize("ESC[1m", Join(keys, <<" ">>), color)]
    ELSE [x |-> <<>>, r |-> <<>>]

\* xKElem: one keyColor.Sprintf("[%s=*]", k) per key.
RECURSIVE XKeyElems(_, _)
XKeyElems(keys, color) ==
    IF keys = <<>> THEN <<>>
    ELSE Colorize("ESC[1m", <<"[">> \o Head(keys) \o <<"=", "*", "]">>, color)
         \o XKeyElems(Tail(keys), color)

\* xKElem and rKElem of a list entry with key statement `key`.
KeyElems(key, color) ==
    IF key # <<>>
    THEN LET keys == Split(key, <<" ">>)
         IN  [x |-> XKeyElems(keys, color),
              r |-> Colorize("ESC[1m", Join(keys, <<",">>), color)]
    ELSE [x |-> <<>>, r |-> <<>>]

\* A union member rendered with the enumeration test before the identity test
\* and the names joined inside one pair of quotes.
UnionMemberQuotedWhole(ut) ==
    IF ut.Kind = "Yenum"
    THEN <<"e","n","u","m","e","r","a","t","i","o","n">>
         \o Quote(<<"[">> \o Join(ut.Enum, <<" ">>) \o <<"]">>)
    ELSE IF ut.IdentityBase # <<>>
    THEN <<"i","d","e","n","t","i","t","y","r","e","f","-",">">> \o ut.IdentityBase[1]
    ELSE ut.Name

\* One member of a union, as the switch of the union loop renders it.
UnionMember(ut) ==
    IF ut.IdentityBase # <<>>
    THEN <<"i","d","e","n","t","i","t","y","r","e","f","-",">">> \o ut.IdentityBase[1]
    ELSE IF ut.Kind = "Yenum"
    THEN <<"e","n","u","m","e","r","a","t","i","o","n">> \o QuoteSlice(ut.Enum)
    ELSE ut.Name

\* p.SType of a leaf whose type is t.
STypeOf(t, color) ==
    Colorize("ESC[2m", t.Name, color)
    \o (IF t.IdentityBase # <<>>
        THEN Colorize("ESC[2m", <<"-", ">">> \o t.IdentityBase[1], color) ELSE <<>>)
    \o (IF t.Kind = "Yleafref"
        THEN Colorize("ESC[2m", <<"-", ">">> \o t.Path, color) ELSE <<>>)
    \o (IF t.Kind = "Yenum"
        THEN Colorize("ESC[2m", QuoteSlice(t.Enum), color) ELSE <<>>)
    \o (IF t.Kind = "Yunion"
        THEN Colorize("ESC[2m",
                 <<"{">> \o Join([i \in 1..Len(t.Members) |-> UnionMember(t.Members[i])],
                                <<" ">>) \o <<"}">>, color)
        ELSE <<>>)

\* The switch on e.Node.(type): the accumulator p after entry e has acted on it.
SwitchNode(e, p, color) ==
    CASE e.Kind = "Module" -> [p EXCEPT !.Module = e.Name]
      [] e.Kind = "Container" ->
            [p EXCEPT !.XPath = @ \o <<"/">> \o e.Name,
                      !.RestConfPath = @ \o <<"/">> \o e.Name,
                      !.Config = InheritConfig(@, e.Config)]
      [] e.Kind = "List" ->
            [p EXCEPT !.Config = InheritConfig(@, e.Config),
                      !.XPath = @ \o <<"/">> \o e.Name \o KeyElems(e.Key, color).x,
                      !.RestConfPath = @ \o <<"/">> \o e.Name \o <<"=">>
                                         \o KeyElems(e.Key, color).r]
      [] e.Kind = "LeafList" -> [p EXCEPT !.Config = InheritConfig(@, e.Config)]
      [] e.Kind = "Leaf" ->
            [p EXCEPT !.Config = InheritConfig(@, e.Config),
                      !.XPath = @ \o <<"/">> \o e.Name,
                      !.RestConfPath = @ \o <<"/">> \o e.Name,
                      !.Type = e.Type,
                      !.SType = STypeOf(e.Type[1], color)]
      [] OTHER -> p

\* A collector that takes a record at every leaf and every leaf-list.
CollectLeafLists(e, coll, addr) ==
    IF e.Kind \in {"Leaf", "LeafList"} THEN Append(coll, addr) ELSE coll

\* *ps = append(*ps, &p), which only the Leaf case reaches.
Collect(e, coll, addr) == IF e.Kind = "Leaf" THEN Append(coll, addr) ELSE coll

\* The accumulator handed down by reference: the callee works on the caller's p.
PassByReference(h, a) == [heap |-> h, addr |-> a]

\* Paths(e.Dir[k], p, ps, termcolor): p is passed by value, so the callee's p
\* is a fresh copy (it lives on the heap, because the Leaf case takes &p).
PassByValue(h, a) == [heap |-> Append(h, h[a]), addr |-> Len(h) + 1]

\* The orders in which `for k := range e.Dir` may yield the keys of the map.
RangeOrders(dir) ==
    LET ks == DOMAIN dir
        n == Cardinality(ks)
    IN  {o \in [1..n -> ks] : \A i, j \in 1..n : i # j => o[i] # o[j]}

-----------------------------------------------------------------------------
(* The schema trees the walker is run on.  Node 0 is the Module entry that *)
(* yang.ToEntry returns; node j > 0 hangs in the Dir of node par[j].       *)

NodeKinds == {"Container", "List", "LeafList", "Leaf", "Other"}
TriStates == {"TSUnset", "TSTrue", "TSFalse"}

\* Entry names; the pool is not in sorted order.
NamePool ==
    << <<"b">>, <<"a", "b">>, <<"a">>, <<"B">>, <<"c">>, <<"a", "a">> >>

StringType == MkType(<<"s","t","r">>, <<>>, "Ystring", <<>>, <<>>, <<>>)

ModuleEntry(dir) ==
    [Kind |-> "Module", Name |-> <<"m">>, Config |-> "TSUnset", Key |-> <<>>,
     Type |-> <<>>, Dir |-> dir]

\* Parent functions of the trees with n nodes below the root.
Shapes(n) == {par \in [1..n -> 0..(n - 1)] : \A j \in 1..n : par[j] < j}

DirOf(n, par, attr, i) ==
    [nm \in {attr[j].Name : j \in {k \in 1..n : par[k] = i}} |->
        CHOOSE j \in 1..n : par[j] = i /\ attr[j].Name = nm]

\* The tree of shape par whose node j has the attributes attr[j].
MkTree(n, par, attr) ==
    [i \in 0..n |->
        IF i = 0 THEN ModuleEntry(DirOf(n, par, attr, 0))
        ELSE [Kind |-> attr[i].Kind, Name |-> attr[i].Name, Config |-> attr[i].Config,
              Key |-> attr[i].Key,
              Type |-> IF attr[i].Kind \in {"Leaf", "LeafList"} THEN <<attr[i].Type>> ELSE <<>>,
              Dir |-> DirOf(n, par, attr, i)]]

Attr(kind, name, config, key, type) ==
    [Kind |-> kind, Name |-> name, Config |-> config, Key |-> key, Type |-> type]

Injections(n) == {f \in [1..n -> 1..n] : \A i, j \in 1..n : i # j => f[i] # f[j]}

\* The trees of every shape with n nodes below the root, node j being of
\* kind k[j], named NamePool[f[j]] and declaring config c[j].
IsTree(t, n, Kinds, Names, Configs) ==
    \E par \in Shapes(n), k \in [1..n -> Kinds], f \in Names, c \in [1..n -> Configs] :
        t = MkTree(n, par, [j \in 1..n |->
                Attr(k[j], NamePool[f[j]], c[j], <<"i", "d">>, StringType)])

InOrder(n) == {[j \in 1..n |-> j]}

-----------------------------------------------------------------------------
(* The walker: RunE calls Paths on the root, Paths calls itself on the     *)
(* children.  A frame holds a call's entry e, the address of its parameter *)
(* p, its sorted slice ne and the position of its loop over ne.            *)

NoOpts ==
    [format |-> "none", only_nodes |-> "all", with_module |-> "no", node_state |-> FALSE,
     style |-> "xpath", types |-> "no", template |-> <<>>, template_vars |-> <<>>]

WalkInit(colors) ==
    /\ termcolor \in colors
    /\ stack = <<>>
    /\ heap = <<ZeroPath>>
    /\ ps = <<>>
    /\ pc = "start"
    /\ opts = NoOpts
    /\ idx = 0
    /\ out = <<>>
    /\ fs = "missing"
    /\ reads = <<>>
    /\ tvars = <<>>
    /\ err = "nil"

\* One call Paths(e, p, ps, termcolor) up to its loop over the children: the
\* argument p is the value at address arg, callers are the frames below it.
Call(e, arg, callers) ==
    LET passed == PassByValue(heap, arg)
        a == passed.addr
        p == SwitchNode(tree[e], passed.heap[a], termcolor)
    IN  /\ heap' = [passed.heap EXCEPT ![a] = p]
        /\ ps' = Collect(tree[e], ps, a)
        /\ \E o \in RangeOrders(tree[e].Dir) :
              stack' = Append(callers, [e |-> e, p |-> a, ne |-> SortStrings(o), i |-> 1])

\* path.Paths(e, path.Path{}, &paths, ...) in RunE.
Start ==
    /\ pc = "start"
    /\ Call(0, 1, <<>>)
    /\ pc' = "walking"
    /\ UNCHANGED <<tree, termcolor, opts, idx, out, fs, reads, tvars, err>>

\* Paths(e.Dir[k], p, ps, termcolor) for the next k of ne.
Descend ==
    /\ pc = "walking"
    /\ stack # <<>>
    /\ LET n == Len(stack)
           top == stack[n]
       IN  /\ top.i <= Len(top.ne)
           /\ Call(tree[top.e].Dir[top.ne[top.i]], top.p, [stack EXCEPT ![n].i = @ + 1])
    /\ UNCHANGED <<tree, termcolor, pc, opts, idx, out, fs, reads, tvars, err>>

\* The loop over ne is over: the call returns.
Return ==
    /\ pc = "walking"
    /\ stack # <<>>
    /\ stack[Len(stack)].i > Len(stack[Len(stack)].ne)
    /\ stack' = SubSeq(stack, 1, Len(stack) - 1)
    /\ pc' = IF Len(stack) = 1 THEN "walked" ELSE "walking"
    /\ UNCHANGED <<tree, termcolor, heap, ps, opts, idx, out, fs, reads, tvars, err>>

WalkNext == Start \/ Descend \/ Return

\* Trees of every shape and every node kind.
Init ==
    /\ \E n \in 1..MaxNodes : IsTree(tree, n, NodeKinds, InOrder(n), {"TSUnset"})
    /\ WalkInit(BOOLEAN)
Spec == Init /\ [][WalkNext]_vars

\* Trees whose names are in every order relative to the nodes, colour off.
InitOrder ==
    /\ \E n \in 1..MaxOrderNodes :
          IsTree(tree, n, {"Container", "List", "Leaf"}, Injections(n), {"TSUnset"})
    /\ WalkInit({FALSE})
SpecOrder == InitOrder /\ [][WalkNext]_vars

\* Trees whose nodes declare every config state.
InitConfig ==
    /\ \E n \in 1..MaxCfgNodes : IsTree(tree, n, NodeKinds, InOrder(n), TriStates)
    /\ WalkInit(BOOLEAN)
SpecConfig == InitConfig /\ [][WalkNext]_vars

\* A Module root, a list with the key statement `key` and a leaf in it.
ListTree(name, key) ==
    MkTree(2, [j \in 1..2 |-> j - 1],
           [j \in 1..2 |->
               IF j = 1 THEN Attr("List", name, "TSUnset", key, StringType)
               ELSE Attr("Leaf", <<"x">>, "TSUnset", <<>>, StringType)])

KeyNames == {<<"i", "d">>, <<"i", "n", "d", "e", "x">>, <<"k">>}
KeySeqs == UNION {[1..n -> KeyNames] : n \in 0..MaxKeys}
ListNames == {<<"l", "i", "s", "t", "n", "a", "m", "e">>, <<"l">>}

\* Lists with every sequence of key names; the key statement of an entry
\* holds the names separated by one space.
InitList ==
    /\ \E name \in ListNames, ks \in KeySeqs : tree = ListTree(name, Join(ks, <<" ">>))
    /\ WalkInit(BOOLEAN)
SpecList == InitList /\ [][WalkNext]_vars

-----------------------------------------------------------------------------
(* What the walker is expected to produce, read off the tree alone.        *)

Nodes == DOMAIN tree
LeafNodes == {n \in Nodes : tree[n].Kind = "Leaf"}
Children(n) == {tree[n].Dir[k] : k \in DOMAIN tree[n].Dir}
Parent(n) == CHOOSE m \in Nodes : n \in Children(m)

\* The nodes from the root down to n.
RECURSIVE RootPath(_)
RootPath(n) == IF n = 0 THEN <<0>> ELSE Append(RootPath(Parent(n)), n)

RECURSIVE Descendants(_)
Descendants(n) == {n} \cup UNION {Descendants(c) : c \in Children(n)}

\* The segment entry n alone contributes to each accumulator.
SegX(n) == SwitchNode(tree[n], ZeroPath, termcolor).XPath
SegR(n) == SwitchNode(tree[n], ZeroPath, termcolor).RestConfPath

RECURSIVE ConcatX(_)
ConcatX(path) == IF path = <<>> THEN <<>> ELSE SegX(Head(path)) \o ConcatX(Tail(path))
RECURSIVE ConcatR(_)
ConcatR(path) == IF path = <<>> THEN <<>> ELSE SegR(Head(path)) \o ConcatR(Tail(path))

OwnX(n) == ConcatX(RootPath(n))
OwnR(n) == ConcatR(RootPath(n))

\* The names of n's children in ascending bytewise order.
Ascending(n) ==
    CHOOSE o \in RangeOrders(tree[n].Dir) :
        \A i, j \in 1..Len(o) : i < j => StrLess(o[i], o[j])

\* The Leaf nodes under n in depth-first pre-order, children by ascending name.
RECURSIVE LeavesFrom(_, _)
RECURSIVE LeavesPreorder(_)
LeavesFrom(n, names) ==
    IF names = <<>> THEN <<>>
    ELSE LeavesPreorder(tree[n].Dir[Head(names)]) \o LeavesFrom(n, Tail(names))
LeavesPreorder(n) ==
    (IF tree[n].Kind = "Leaf" THEN <<n>> ELSE <<>>) \o LeavesFrom(n, Ascending(n))

\* The nodes whose call has begun, read off the call stack: the entries of
\* the active calls and the subtrees of the children their loops are past.
Visited ==
    IF pc = "walked" THEN Nodes
    ELSE UNION {
        LET f == stack[q]
            past == IF q < Len(stack) THEN f.i - 2 ELSE f.i - 1
        IN  {f.e} \cup UNION {Descendants(tree[f.e].Dir[f.ne[j]]) : j \in 1..past}
        : q \in 1..Len(stack)}

Record(i) == heap[ps[i]]

\* The state the nearest Container, List, LeafList or Leaf at or above n
\* declares, TSUnset if none declares one.
RECURSIVE NearestDeclared(_)
NearestDeclared(n) ==
    IF tree[n].Kind \in {"Container", "List", "LeafList", "Leaf"} /\ tree[n].Config # "TSUnset"
    THEN tree[n].Config
    ELSE IF n = 0 THEN "TSUnset" ELSE NearestDeclared(Parent(n))

-----------------------------------------------------------------------------
(* Claims about the walker.                                                *)

\* C1: the collector holds one record per Leaf node the walk has reached and
\* none for any other kind of node; when Paths has returned that is one
\* record per Leaf node of the tree, whatever the kinds of the nodes above it.
C1_RecordPerLeaf == Len(ps) = Cardinality(Visited \cap LeafNodes)

\* A finished walk of a leaf-list holding a leaf that holds a leaf: two
\* records, none for the leaf-list.
C1_Witness ==
    /\ pc = "walked"
    /\ Cardinality(Nodes) = 4
    /\ tree[1].Kind = "LeafList" /\ tree[2].Kind = "Leaf" /\ tree[3].Kind = "Leaf"
    /\ Children(1) = {2} /\ Children(2) = {3}
    /\ Len(ps) = 2

\* Every record's XPath and RESTCONF strings are the concatenation of the
\* segments of the nodes on its own root-to-leaf path, and the accumulator of
\* every active call is the concatenation for its own entry.
C2_OwnPathOnly ==
    /\ \A i \in 1..Len(ps) :
          \E n \in LeafNodes : Record(i).XPath = OwnX(n) /\ Record(i).RestConfPath = OwnR(n)
    /\ \A q \in 1..Len(stack) :
          /\ heap[stack[q].p].XPath = OwnX(stack[q].e)
          /\ heap[stack[q].p].RestConfPath = OwnR(stack[q].e)

\* No step changes a record that is already in the collector.
C2_RecordsStable ==
    \A i \in 1..Len(ps) : Len(ps') >= i /\ heap'[ps'[i]] = heap[ps[i]]

\* C2: accumulator isolation.  What a subtree's calls and records hold depends
\* on the nodes of their own root-to-leaf paths only, never on a sibling
\* subtree, and the later traversal never changes a record in the collector.
C2_Isolation == []C2_OwnPathOnly /\ [][C2_RecordsStable]_vars

\* A finished walk of a node with a list child and a leaf child, with both
\* leaves recorded.
C2_Witness ==
    /\ pc = "walked"
    /\ Len(ps) >= 2
    /\ \E n \in Nodes : \E c, d \in Children(n) :
          /\ c # d
          /\ tree[c].Kind = "List" /\ Children(c) # {}
          /\ tree[d].Kind = "Leaf"
          /\ StrLess(tree[c].Name, tree[d].Name)

\* C3: when Paths has returned, the records are those of the Leaf nodes in
\* depth-first pre-order with the children of every node in ascending order
\* of their names, whatever order the ranges over the Dir maps took (so two
\* runs on one tree give one sequence).
C3_SortedPreorder ==
    pc = "walked" =>
        LET lp == LeavesPreorder(0)
        IN  /\ Len(ps) = Len(lp)
            /\ \A i \in 1..Len(ps) :
                  Record(i).XPath = OwnX(lp[i]) /\ Record(i).RestConfPath = OwnR(lp[i])

\* A finished walk whose records are not in the order of the node ids: two
\* leaves next to each other, the later one with the smaller name.
C3_Witness ==
    /\ pc = "walked"
    /\ Len(ps) >= 2
    /\ \E c, d \in LeafNodes :
          /\ c < d /\ Parent(c) = Parent(d) /\ Parent(c) # 0
          /\ StrLess(tree[d].Name, tree[c].Name)
          /\ \E i \in 1..(Len(ps) - 1) :
                Record(i).XPath = OwnX(d) /\ Record(i + 1).XPath = OwnX(c)

\* C7: the config state of every record is the state declared by the nearest
\* Container, List, LeafList or Leaf on its root-to-leaf path (the leaf
\* included) that declares one, and unset when none does.
C7_ConfigInherited ==
    LET lp == LeavesPreorder(0)
    IN  \A i \in 1..Len(ps) :
            i <= Len(lp) /\ Record(i).Config = NearestDeclared(lp[i])

\* A record that inherits read-only from a node above it while a sibling
\* record keeps its own state.
C7_Witness ==
    /\ pc = "walked"
    /\ \E i \in 1..Len(ps) :
          LET n == LeavesPreorder(0)[i]
          IN  /\ tree[n].Config = "TSUnset"
              /\ Parent(n) # 0 /\ tree[Parent(n)].Config = "TSFalse"
              /\ Record(i).Config = "TSFalse"

\* The text the claim expects after the list's name in each style.
RECURSIVE Predicates(_)
Predicates(ks) ==
    IF ks = <<>> THEN <<>>
    ELSE <<"[">> \o Head(ks) \o <<"=", "*", "]">> \o Predicates(Tail(ks))
RECURSIVE CommaList(_)
CommaList(ks) ==
    IF ks = <<>> THEN <<>>
    ELSE Head(ks) \o (IF Len(ks) > 1 THEN <<",">> ELSE <<>>) \o CommaList(Tail(ks))

\* C4: for a list entry named N whose keys are k1..kn, colour off, the call
\* appends "/N" and one "[ki=*]" per key to the XPath accumulator and "/N="
\* and the keys joined by commas to the RESTCONF accumulator; without keys
\* the segments are "/N" and "/N=".
C4_ListSegments ==
    \A q \in 2..Len(stack) :
        LET e == tree[stack[q].e]
            before == heap[stack[q - 1].p]
            after == heap[stack[q].p]
        IN  (e.Kind = "List" /\ ~termcolor) =>
              /\ \A ks \in KeySeqs :
                    e.Key = Join(ks, <<" ">>) =>
                      /\ after.XPath = before.XPath \o <<"/">> \o e.Name \o Predicates(ks)
                      /\ after.RestConfPath =
                            before.RestConfPath \o <<"/">> \o e.Name \o <<"=">> \o CommaList(ks)
              /\ e.Key = <<>> =>
                      /\ after.XPath = before.XPath \o <<"/">> \o e.Name
                      /\ after.RestConfPath = before.RestConfPath \o <<"/">> \o e.Name \o <<"=">>
              /\ (e.Name = <<"l","i","s","t","n","a","m","e">>
                    /\ e.Key = <<"i","d"," ","i","n","d","e","x">>) =>
                      /\ after.XPath = before.XPath \o
                            <<"/","l","i","s","t","n","a","m","e",
                              "[","i","d","=","*","]","[","i","n","d","e","x","=","*","]">>
                      /\ after.RestConfPath = before.RestConfPath \o
                            <<"/","l","i","s","t","n","a","m","e","=","i","d",",","i","n","d","e","x">>

\* The call on the list "listname" with the keys id and index, colour off.
C4_Witness ==
    /\ ~termcolor
    /\ Len(stack) = 2
    /\ tree[stack[2].e].Kind = "List"
    /\ tree[stack[2].e].Key = <<"i","d"," ","i","n","d","e","x">>
    /\ heap[stack[2].p].RestConfPath =
          <<"/","l","i","s","t","n","a","m","e","=","i","d",",","i","n","d","e","x">>

-----------------------------------------------------------------------------
(* Leaves of every type, for the rendering of p.SType.                     *)

Foo == <<"F", "o", "o">>
IdRefFoo ==
    MkType(<<"i","d","e","n","t","i","t","y","r","e","f">>, <<Foo>>, "Yidentityref",
           <<>>, <<>>, <<>>)
EnumAB ==
    MkType(<<"e","n","u","m","e","r","a","t","i","o","n">>, <<>>, "Yenum",
           <<>>, << <<"A">>, <<"B">> >>, <<>>)
EnumQuote ==
    MkType(<<"e","n","u","m","e","r","a","t","i","o","n">>, <<>>, "Yenum",
           <<>>, << <<"a", "\"">> >>, <<>>)
LeafRef == MkType(<<"l","e","a","f","r","e","f">>, <<>>, "Yleafref", <<"/", "a">>, <<>>, <<>>)
MemberTypes == {IdRefFoo, EnumAB, EnumQuote, StringType}
UnionOf(members) == MkType(<<"u","n","i","o","n">>, <<>>, "Yunion", <<>>, <<>>, members)
LeafTypes ==
    MemberTypes \cup {LeafRef}
    \cup UNION {{UnionOf(ms) : ms \in [1..n -> MemberTypes]} : n \in 1..MaxMembers}

TypeTree(t) ==
    MkTree(1, [j \in 1..1 |-> 0], [j \in 1..1 |-> Attr("Leaf", <<"x">>, "TSUnset", <<>>, t)])

InitType ==
    /\ \E t \in LeafTypes : tree = TypeTree(t)
    /\ WalkInit(BOOLEAN)
SpecType == InitType /\ [][WalkNext]_vars

\* The literal texts of the union example.
UnionTextClaimed ==
    <<"{","i","d","e","n","t","i","t","y","r","e","f","-",">","F","o","o"," ",
      "e","n","u","m","e","r","a","t","i","o","n","\"","[","A"," ","B","]","\"","}">>
UnionTextFound ==
    <<"u","n","i","o","n",
      "{","i","d","e","n","t","i","t","y","r","e","f","-",">","F","o","o"," ",
      "e","n","u","m","e","r","a","t","i","o","n","[","\"","A","\""," ","\"","B","\"","]","}">>

\* A union member as the amended claim words it.
MemberText(ut) ==
    IF ut.IdentityBase # <<>>
    THEN <<"i","d","e","n","t","i","t","y","r","e","f","-",">">> \o ut.IdentityBase[1]
    ELSE IF ut.Kind = "Yenum"
    THEN <<"e","n","u","m","e","r","a","t","i","o","n","[">>
         \o Join([i \in 1..Len(ut.Enum) |-> Quote(ut.Enum[i])], <<" ">>) \o <<"]">>
    ELSE ut.Name

IsUnionExample(p) ==
    p.Type # <<>> /\ p.Type[1].Kind = "Yunion" /\ p.Type[1].Members = <<IdRefFoo, EnumAB>>

\* C5 as stated: the record of a union leaf with the members identity-ref
\* (base Foo) and enumeration (A, B) has the type string
\* {identityref->Foo enumeration"[A B]"}.  Stated for colour off, where no
\* escape sequence can account for a difference.
C5_AsStated ==
    \A i \in 1..Len(ps) :
        (~termcolor /\ IsUnionExample(Record(i))) => Record(i).SType = UnionTextClaimed

\* C5 amended: with colour off the type string of a union leaf is the type's
\* bare name followed by the members in declared order, joined by one space
\* and wrapped in braces; a member is identityref->BASE if it has an identity
\* base, else enumeration and the bracketed list of its names, each name in
\* double quotes of its own, else its bare name.  The example gives
\* union{identityref->Foo enumeration["A" "B"]}.
C5_UnionTypeString ==
    \A i \in 1..Len(ps) :
        LET p == Record(i)
        IN  (~termcolor /\ p.Type # <<>> /\ p.Type[1].Kind = "Yunion") =>
              /\ p.SType = p.Type[1].Name \o <<"{">>
                    \o Join([j \in 1..Len(p.Type[1].Members) |->
                                MemberText(p.Type[1].Members[j])], <<" ">>)
                    \o <<"}">>
              /\ IsUnionExample(p) => p.SType = UnionTextFound

\* The record of the union example, colour off.
C5_Witness ==
    /\ ~termcolor
    /\ Len(ps) = 1
    /\ IsUnionExample(Record(1))
    /\ Record(1).SType = UnionTextFound

-----------------------------------------------------------------------------
(* The text renderer: the loop of RunE over paths when path-format is      *)
(* "text".                                                                 *)

\* The switch on path-only-nodes with an unset state counted as state.
SkippedUnsetAsState(only, cfg) ==
    CASE only = "config" -> cfg \in {"TSFalse", "TSUnset"}
      [] only = "state" -> cfg = "TSTrue"
      [] OTHER -> FALSE

\* The switch on path-only-nodes: whether the loop continues past the record.
Skipped(only, cfg) ==
    CASE only = "config" -> cfg = "TSFalse"
      [] only = "state" -> cfg = "TSTrue" \/ cfg = "TSUnset"
      [] OTHER -> FALSE

\* The indicator with an unset state shown as read-only.
CfgElemUnsetRo(cfg) ==
    IF cfg # "TSTrue" THEN <<"[", "r", "o", "]">> ELSE <<"[", "r", "w", "]">>

\* cfgElem: "[rw]", or "[ro]" when path.Config == yang.TSFalse.
CfgElem(cfg) ==
    IF cfg = "TSFalse" THEN <<"[", "r", "o", "]">> ELSE <<"[", "r", "w", "]">>

\* ps, the fields of the row of record p under the settings o.
RowFields(o, p) ==
    (IF o.with_module = "yes" THEN <<p.Module>> ELSE <<>>)
    \o (IF o.node_state THEN <<CfgElem(p.Config)>> ELSE <<>>)
    \o (CASE o.style = "xpath" -> <<p.XPath>>
          [] o.style = "restconf" -> <<p.RestConfPath>>
          [] OTHER -> <<>>)
    \o (CASE o.types = "yes" -> <<p.Type[1].Name>>
          [] o.types = "detailed" -> <<p.SType>>
          [] OTHER -> <<>>)

\* strings.Join(ps, "  "), the line fmt.Println writes.
RowText(o, p) == Join(RowFields(o, p), <<" ", " ">>)

\* The records the walker hands over: leaves of a module m in every state.
TextRecord(cfg, name) ==
    [Module |-> <<"m">>, Type |-> <<StringType>>,
     XPath |-> <<"/", "l", "[", "k", "=", "*", "]", "/">> \o name,
     RestConfPath |-> <<"/", "l", "=", "k", "/">> \o name,
     SType |-> <<"s", "t", "r">>, Config |-> cfg]
TextRecords == {TextRecord(c, n) : c \in TriStates, n \in {<<"a">>, <<"b">>}}

InitText ==
    /\ tree = <<>>
    /\ termcolor = FALSE
    /\ stack = <<>>
    /\ \E n \in 0..MaxRecords : \E rs \in [1..n -> TextRecords] :
          heap = rs /\ ps = [i \in 1..n |-> i]
    /\ pc = "text"
    /\ \E only \in {"all", "config", "state"}, wm \in {"yes", "no"}, ns \in BOOLEAN,
          st \in {"xpath", "restconf"}, ty \in {"yes", "no", "detailed"} :
          opts = [format |-> "text", only_nodes |-> only, with_module |-> wm,
                  node_state |-> ns, style |-> st, types |-> ty,
                  template |-> <<>>, template_vars |-> <<>>]
    /\ idx = 1
    /\ out = <<>>
    /\ fs = "missing"
    /\ reads = <<>>
    /\ tvars = <<>>
    /\ err = "nil"

\* One turn of `for _, path := range paths`.
TextRow ==
    /\ pc = "text"
    /\ idx <= Len(ps)
    /\ out' = IF Skipped(opts.only_nodes, heap[ps[idx]].Config) THEN out
              ELSE Append(out, RowText(opts, heap[ps[idx]]))
    /\ idx' = idx + 1
    /\ UNCHANGED <<tree, termcolor, stack, heap, ps, pc, opts, fs, reads, tvars, err>>

\* The loop is over; the format is not "html", so RunE returns nil.
TextDone ==
    /\ pc = "text"
    /\ idx > Len(ps)
    /\ pc' = "done"
    /\ UNCHANGED <<tree, termcolor, stack, heap, ps, opts, idx, out, fs, reads, tvars, err>>

TextNext == TextRow \/ TextDone
SpecText == InitText /\ [][TextNext]_vars

\* The records the loop is past.
Seen == [i \in 1..(idx - 1) |-> Record(i)]
Rows(rs) == [i \in 1..Len(rs) |-> RowText(opts, rs[i])]

\* The indicator field of a written line.
Indicator(line) ==
    LET fields == Split(line, <<" ", " ">>)
    IN  IF opts.with_module = "yes" THEN fields[2] ELSE fields[1]

KeptAsStated(p) ==
    CASE opts.only_nodes = "state" -> p.Config \in {"TSFalse", "TSUnset"}
      [] opts.only_nodes = "config" -> p.Config = "TSTrue"
      [] OTHER -> TRUE

KeptAmended(p) ==
    CASE opts.only_nodes = "state" -> p.Config = "TSFalse"
      [] opts.only_nodes = "config" -> p.Config \in {"TSTrue", "TSUnset"}
      [] OTHER -> TRUE

\* C6 as stated: the state filter writes exactly the rows of the records
\* whose state is ro or unset, the config filter exactly those of the rw
\* records, the filter all every row, in input order.
C6_AsStated == pc = "text" \/ pc = "done" => out = Rows(SelectSeq(Seen, KeptAsStated))

\* C6 amended: the state filter writes exactly the rows of the records whose
\* state is ro, the config filter exactly those of the records whose state is
\* rw or unset, the filter all every row; one line per surviving record, in
\* input order.
C6_Filter == pc = "text" \/ pc = "done" => out = Rows(SelectSeq(Seen, KeptAmended))

\* A finished run of the state filter over an unset and a read-only record:
\* only the second is written.
C6_Witness ==
    /\ pc = "done"
    /\ opts.only_nodes = "state"
    /\ Len(ps) = 2
    /\ Record(1).Config = "TSUnset" /\ Record(2).Config = "TSFalse"
    /\ out = <<RowText(opts, Record(2))>>

\* C10: with the indicator on, every row of the config filter shows [rw] and
\* every row of the state filter shows [ro]; a row shows [ro] exactly when its
\* record's state is false, so an unset record shows [rw], passes the config
\* filter and is dropped by the state filter.
C10_FilterAgreesWithIndicator ==
    (opts.format = "text" /\ opts.node_state) =>
        /\ opts.only_nodes = "config" =>
              /\ \A i \in 1..Len(out) : Indicator(out[i]) = <<"[", "r", "w", "]">>
              /\ Len(out) = Len(SelectSeq(Seen, LAMBDA p : p.Config # "TSFalse"))
        /\ opts.only_nodes = "state" =>
              /\ \A i \in 1..Len(out) : Indicator(out[i]) = <<"[", "r", "o", "]">>
              /\ Len(out) = Len(SelectSeq(Seen, LAMBDA p : p.Config = "TSFalse"))
        /\ opts.only_nodes = "all" =>
              /\ Len(out) = Len(Seen)
              /\ \A i \in 1..Len(out) :
                    (Indicator(out[i]) = <<"[", "r", "o", "]">>) <=> (Seen[i].Config = "TSFalse")
                    /\ Indicator(out[i]) \in {<<"[", "r", "o", "]">>, <<"[", "r", "w", "]">>}

\* A finished run of the config filter with the indicator on that wrote the
\* row of an unset record.
C10_Witness ==
    /\ pc = "done"
    /\ opts.node_state /\ opts.only_nodes = "config"
    /\ Len(ps) = 2 /\ Len(out) = 2
    /\ Record(1).Config = "TSUnset" /\ Record(2).Config = "TSTrue"
    /\ Indicator(out[1]) = <<"[", "r", "w", "]">>

-----------------------------------------------------------------------------
(* The HTML renderer: path.Template, called by RunE when path-format is    *)
(* "html".  A template text is "default" (defTemplate) or what the file    *)
(* holds: "good", "badsyntax" (template.Parse fails on it) or "badexec"    *)
(* (it parses and tmpl.Execute fails after part of it has been written).   *)

Sep == <<":", ":", ":">>

\* A variable argument parsed with only the segment after the first separator kept.
ParseVarSecondOnly(v) ==
    LET vk == Split(v, Sep)
    IN  IF Len(vk) < 2 THEN <<>> ELSE <<vk[1], vk[2]>>

\* One turn of the loop over vars: <<>> for an ignored argument, else the
\* key and the value stored in input.Vars.
ParseVar(v) ==
    LET vk == Split(v, Sep)
    IN  IF Len(vk) < 2 THEN <<>> ELSE <<vk[1], Join(Tail(vk), Sep)>>

\* input.Vars after the loop over vars, starting from the map m.
RECURSIVE ParseVars(_, _)
ParseVars(m, vs) ==
    IF vs = <<>> THEN m
    ELSE LET kv == ParseVar(Head(vs))
         IN  IF kv = <<>> THEN ParseVars(m, Tail(vs))
             ELSE ParseVars([k \in DOMAIN m \cup {kv[1]} |->
                                IF k = kv[1] THEN kv[2] ELSE m[k]], Tail(vs))

\* A loader that falls back to the default template when the file cannot be read.
LoadOrDefault(t, file) ==
    IF t # <<>> /\ file # "missing"
    THEN [err |-> "nil", text |-> file, reads |-> <<t>>]
    ELSE [err |-> "nil", text |-> "default", reads |-> IF t # <<>> THEN <<t>> ELSE <<>>]

\* The switch that sets outTemplate: the file's text, or defTemplate.
LoadTemplate(t, file) ==
    IF t # <<>>
    THEN IF file = "missing"
         THEN [err |-> "read", text |-> "none", reads |-> <<t>>]
         ELSE [err |-> "nil", text |-> file, reads |-> <<t>>]
    ELSE [err |-> "nil", text |-> "default", reads |-> <<>>]

\* template.New("output-template").Parse(outTemplate)
ParseTemplate(text) == IF text = "badsyntax" THEN "parse" ELSE "nil"

NoVars == [k \in {} |-> <<>>]

VarArgs ==
    { <<"f","o","o",":",":",":","b","a","r",":",":",":","b","a","z">>,
      <<"f","o","o",":",":",":","x">>,
      <<"k">>,
      <<"k",":",":","v">>,
      <<"j",":",":",":",":","v">>,
      <<":",":",":","v">> }

InitHtml ==
    /\ tree = <<>>
    /\ termcolor = FALSE
    /\ stack = <<>>
    /\ \E n \in 0..1 : \E rs \in [1..n -> {TextRecord("TSTrue", <<"a">>)}] :
          heap = rs /\ ps = [i \in 1..n |-> i]
    /\ pc = "html"
    /\ \E t \in {<<>>, <<"t">>}, n \in 0..MaxVars : \E vs \in [1..n -> VarArgs] :
          opts = [format |-> "html", only_nodes |-> "all", with_module |-> "no",
                  node_state |-> TRUE, style |-> "xpath", types |-> "detailed",
                  template |-> t, template_vars |-> vs]
    /\ idx = 0
    /\ out = <<>>
    /\ fs \in {"missing", "good", "badsyntax", "badexec"}
    /\ reads = <<>>
    /\ tvars = NoVars
    /\ err = "nil"

\* path.Template(t, paths, vars) and RunE's handling of its result.
Template ==
    /\ pc = "html"
    /\ LET loaded == LoadTemplate(opts.template, fs)
           parsed == IF loaded.err = "nil" THEN ParseTemplate(loaded.text) ELSE "skipped"
           input == [Paths |-> [i \in 1..Len(ps) |-> heap[ps[i]]],
                     Vars |-> ParseVars(NoVars, opts.template_vars)]
       IN  /\ reads' = reads \o loaded.reads
           /\ IF loaded.err # "nil"
              THEN err' = loaded.err /\ UNCHANGED <<out, tvars>>
              ELSE IF parsed # "nil"
              THEN err' = parsed /\ UNCHANGED <<out, tvars>>
              ELSE /\ tvars' = input.Vars
                   /\ IF loaded.text = "badexec"
                      THEN /\ out' = Append(out, [template |-> loaded.text, part |-> TRUE,
                                                  input |-> input])
                           /\ err' = "exec"
                      ELSE /\ out' = Append(out, [template |-> loaded.text, part |-> FALSE,
                                                  input |-> input])
                           /\ err' = "nil"
    /\ pc' = IF err' = "nil" THEN "done" ELSE "fatal"
    /\ UNCHANGED <<tree, termcolor, stack, heap, ps, opts, idx, fs>>

SpecHtml == InitHtml /\ [][Template]_vars

\* What the claim reads off an argument: the text before and after the first
\* separator.
HasSep(v) == \E i \in 1..(Len(v) - 2) : SubSeq(v, i, i + 2) = Sep
FirstSep(v) ==
    CHOOSE i \in 1..(Len(v) - 2) :
        SubSeq(v, i, i + 2) = Sep /\ \A j \in 1..(i - 1) : SubSeq(v, j, j + 2) # Sep
KeyOf(v) == SubSeq(v, 1, FirstSep(v) - 1)
ValueOf(v) == SubSeq(v, FirstSep(v) + 3, Len(v))
Rendered == pc \in {"done", "fatal"} /\ err \in {"nil", "exec"}

\* C8 as stated: the map handed to the template holds, for each argument with
\* a separator, the text before the first separator mapped to everything after
\* it; an argument without separator adds no entry and stops neither the
\* parsing of the others nor the rendering.
C8_AsStated ==
    LET vs == opts.template_vars
    IN  (pc \in {"done", "fatal"} /\ err \notin {"read", "parse"}) =>
          /\ Rendered /\ Len(out) = 1
          /\ DOMAIN tvars = {KeyOf(vs[i]) : i \in {j \in 1..Len(vs) : HasSep(vs[j])}}
          /\ \A i \in 1..Len(vs) : HasSep(vs[i]) => tvars[KeyOf(vs[i])] = ValueOf(vs[i])

\* C8 amended: as stated, for each argument with a separator whose key no
\* later argument repeats; when arguments share a key the last one's value
\* is the one the map holds.
C8_LastValuePerKey ==
    LET vs == opts.template_vars
    IN  (pc \in {"done", "fatal"} /\ err \notin {"read", "parse"}) =>
          /\ Rendered /\ Len(out) = 1
          /\ out[1].input.Vars = tvars
          /\ DOMAIN tvars = {KeyOf(vs[i]) : i \in {j \in 1..Len(vs) : HasSep(vs[j])}}
          /\ \A i \in 1..Len(vs) :
                (HasSep(vs[i])
                  /\ \A j \in (i + 1)..Len(vs) : HasSep(vs[j]) => KeyOf(vs[j]) # KeyOf(vs[i]))
                => tvars[KeyOf(vs[i])] = ValueOf(vs[i])

\* A rendering whose arguments were one without separator followed by
\* "foo:::bar:::baz": the map holds foo -> "bar:::baz" and nothing else.
C8_Witness ==
    /\ pc = "done"
    /\ opts.template_vars =
          << <<"k">>, <<"f","o","o",":",":",":","b","a","r",":",":",":","b","a","z">> >>
    /\ DOMAIN tvars = {<<"f","o","o">>}
    /\ tvars[<<"f","o","o">>] = <<"b","a","r",":",":",":","b","a","z">>
    /\ Len(out) = 1

\* C9: when a template path is given and the file cannot be read, or the
\* template text does not parse, Template returns that error and nothing has
\* been written or rendered; when no path is given the default template is
\* used and no file is read.
C9_TemplateFailureIsFatal ==
    pc # "html" =>
        /\ (opts.template # <<>> /\ fs = "missing") =>
              err = "read" /\ out = <<>> /\ pc = "fatal"
        /\ (opts.template # <<>> /\ fs = "badsyntax") =>
              err = "parse" /\ out = <<>> /\ pc = "fatal"
        /\ opts.template = <<>> =>
              /\ reads = <<>>
              /\ err = "nil" /\ pc = "done"
              /\ Len(out) = 1 /\ out[1].template = "default"

\* Template has returned the read error of a missing template file with one
\* record to render and nothing written.
C9_Witness ==
    /\ pc = "fatal"
    /\ opts.template # <<>> /\ fs = "missing"
    /\ Len(ps) = 1
    /\ err = "read"
    /\ out = <<>>

=============================================================================
